---- MODULE Spec2Model ----
(***************************************************************************)
(* Model of the asteroid-impact visualiser (src/src/App.jsx): the          *)
(* population lookup fetchPopulationDensity, the impact calculator         *)
(* computeImpact and the event handlers of the App component.              *)
(*                                                                         *)
(* JavaScript numbers are IEEE doubles.  They are modelled by a binary     *)
(* floating-point format with a 15-bit mantissa, [m |-> mantissa,          *)
(* e |-> exponent] standing for m * 2^e, plus NaN and the two infinities,  *)
(* so that every product of two mantissas fits 32-bit integers.  Every     *)
(* arithmetic operator rounds its result to that format as the hardware    *)
(* rounds to 53 bits.                                                      *)
(***************************************************************************)
EXTENDS Integers, Sequences, FiniteSets, TLC

(***************************************************************************)
(* Numbers                                                                 *)
(***************************************************************************)
MLo == 2^14
MHi == 2^15

Abs(n) == IF n < 0 THEN -n ELSE n
Sgn(n) == IF n < 0 THEN -1 ELSE IF n = 0 THEN 0 ELSE 1

RECURSIVE BitLen(_)
BitLen(a) == IF a = 0 THEN 0 ELSE 1 + BitLen(a \div 2)

NaN == [m |-> 0, e |-> 1]
Zero == [m |-> 0, e |-> 0]
InfExp == 2^20
PosInf == [m |-> 1, e |-> InfExp]
NegInf == [m |-> -1, e |-> InfExp]
IsNaN(x) == x = NaN
IsInf(x) == x.e = InfExp

\* m * 2^e for a mantissa m of n bits, brought to 15 bits.
Round15(m, e, n) ==
    IF n > 15
    THEN LET r == (Abs(m) \div 2^(n - 15)) + ((Abs(m) \div 2^(n - 16)) % 2)
         IN  IF r = MHi THEN [m |-> Sgn(m) * MLo, e |-> e + n - 14]
                        ELSE [m |-> Sgn(m) * r, e |-> e + n - 15]
    ELSE [m |-> m * 2^(15 - n), e |-> e - (15 - n)]

\* m * 2^e rounded to a 15-bit mantissa (round half away from zero).
Norm(m, e) == IF m = 0 THEN Zero ELSE Round15(m, e, BitLen(Abs(m)))

FromInt(n) == Norm(n, 0)

SignedInf(sign) == IF sign < 0 THEN NegInf ELSE PosInf

FNeg(x) == IF IsNaN(x) THEN NaN ELSE [m |-> -x.m, e |-> x.e]

FMul(x, y) ==
    IF IsNaN(x) \/ IsNaN(y) THEN NaN
    ELSE IF IsInf(x) \/ IsInf(y)
         THEN IF x.m = 0 \/ y.m = 0 THEN NaN ELSE SignedInf(Sgn(x.m) * Sgn(y.m))
    ELSE Norm(x.m * y.m, x.e + y.e)

FDiv(x, y) ==
    IF IsNaN(x) \/ IsNaN(y) THEN NaN
    ELSE IF IsInf(x) THEN (IF IsInf(y) THEN NaN
                           ELSE SignedInf(Sgn(x.m) * (IF y.m < 0 THEN -1 ELSE 1)))
    ELSE IF IsInf(y) THEN Zero
    ELSE IF y.m = 0 THEN (IF x.m = 0 THEN NaN ELSE SignedInf(Sgn(x.m)))
    ELSE Norm(Sgn(x.m) * Sgn(y.m) * ((Abs(x.m) * MHi) \div Abs(y.m)), x.e - y.e - 15)

FAdd(x, y) ==
    IF IsNaN(x) \/ IsNaN(y) THEN NaN
    ELSE IF IsInf(x) THEN (IF IsInf(y) /\ x # y THEN NaN ELSE x)
    ELSE IF IsInf(y) THEN y
    ELSE IF x.m = 0 THEN y
    ELSE IF y.m = 0 THEN x
    ELSE LET hi == IF x.e >= y.e THEN x ELSE y
             lo == IF x.e >= y.e THEN y ELSE x
         IN  IF hi.e - lo.e > 15 THEN hi ELSE Norm(hi.m * 2^(hi.e - lo.e) + lo.m, lo.e)

FSub(x, y) == FAdd(x, FNeg(y))

\* x < y, false when either is NaN, as in JavaScript.
FLess(x, y) ==
    IF IsNaN(x) \/ IsNaN(y) THEN FALSE
    ELSE IF Sgn(x.m) # Sgn(y.m) THEN Sgn(x.m) < Sgn(y.m)
    ELSE IF x.m = 0 THEN FALSE
    ELSE IF x.m > 0 THEN x.e < y.e \/ (x.e = y.e /\ x.m < y.m)
    ELSE x.e > y.e \/ (x.e = y.e /\ x.m < y.m)

FGreater(x, y) == FLess(y, x)
FGeq(x, y) == ~IsNaN(x) /\ ~IsNaN(y) /\ ~FLess(x, y)
FLeq(x, y) == FGeq(y, x)

\* Math.min and Math.max: NaN when either argument is NaN.
MathMin(x, y) == IF IsNaN(x) \/ IsNaN(y) THEN NaN ELSE IF FLess(y, x) THEN y ELSE x
MathMax(x, y) == IF IsNaN(x) \/ IsNaN(y) THEN NaN ELSE IF FLess(x, y) THEN y ELSE x

\* Math.round: floor(x + 0.5), NaN for NaN.
MathRound(x) ==
    IF IsNaN(x) THEN NaN
    ELSE IF x.e >= 0 THEN x
    ELSE IF -x.e > 16 THEN Zero
    ELSE Norm((x.m + 2^(-x.e - 1)) \div 2^(-x.e), 0)

\* m * 10^p, the value of a decimal literal such as 4.184e15.
RECURSIVE Dec(_, _)
Dec(m, p) ==
    IF p = 0 THEN FromInt(m)
    ELSE IF p > 0 THEN FMul(Dec(m, p - 1), FromInt(10))
    ELSE FDiv(Dec(m, p + 1), FromInt(10))

\* The integer nearest to a finite y, |y| < 2^30.
Nearest(y) ==
    IF y.m = 0 THEN 0
    ELSE IF y.e >= 0 THEN y.m * 2^y.e
    ELSE IF -y.e > 16 THEN 0
    ELSE Sgn(y.m) * ((Abs(y.m) + 2^(-y.e - 1)) \div 2^(-y.e))
\* The integer nearest to x * 10^d: the digits that
\* Number.prototype.toFixed(d) prints.
Scaled(x, d) == Nearest(FMul(x, Dec(1, d)))

\* log2(x) as a fixed-point integer with 14 fractional bits, for x > 0.
RECURSIVE Log2Frac(_, _)
Log2Frac(x, i) ==
    IF i = 0 THEN 0
    ELSE LET s == (x * x) \div MLo
         IN  IF s >= MHi THEN 2^(i - 1) + Log2Frac(s \div 2, i - 1)
                         ELSE Log2Frac(s, i - 1)

Log2Fix(x) == (x.e + 14) * MLo + Log2Frac(x.m, 14)

\* 2^(2^-i) with 14 fractional bits, i = 1..14.
RootsOfTwo == <<23170, 19484, 17867, 17109, 16743, 16562, 16473,
                16428, 16406, 16395, 16390, 16387, 16385, 16385>>

RECURSIVE Exp2Frac(_, _, _)
Exp2Frac(f, i, acc) ==
    IF i > 14 THEN acc
    ELSE IF (f \div 2^(14 - i)) % 2 = 1
         THEN Exp2Frac(f, i + 1, (acc * RootsOfTwo[i] + MLo \div 2) \div MLo)
         ELSE Exp2Frac(f, i + 1, acc)

\* 2^(L / 2^14) for a fixed-point L.
Exp2Fix(L) == Norm(Exp2Frac(L % MLo, 1, MLo), (L \div MLo) - 14)

\* Math.pow(x, num/den) for a fractional exponent num/den > 0: NaN for x < 0,
\* 0 for 0, Infinity for Infinity.
MathPow(x, num, den) ==
    IF IsNaN(x) \/ x.m < 0 THEN NaN
    ELSE IF x.m = 0 THEN Zero
    ELSE IF IsInf(x) THEN PosInf
    ELSE Exp2Fix((Log2Fix(x) * num) \div den)

\* Math.pow(x, n) for n = 2 and n = 3.
Square(x) == FMul(x, x)
Cube(x) == FMul(FMul(x, x), x)

Log2Of10 == 54426
\* Math.log10(x): NaN for x < 0, -Infinity for 0.
MathLog10(x) ==
    IF IsNaN(x) \/ x.m < 0 THEN NaN
    ELSE IF x.m = 0 THEN NegInf
    ELSE IF IsInf(x) THEN PosInf
    ELSE FDiv(Norm(Log2Fix(x), -14), Norm(Log2Of10, -14))

\* A finite y as a fixed-point integer with 14 fractional bits.
ToFix14(y) ==
    IF y.m = 0 THEN 0
    ELSE IF y.e + 14 >= 0 THEN y.m * 2^(y.e + 14)
    ELSE y.m \div 2^(-(y.e + 14))

\* Math.pow(10, x).
Pow10(x) ==
    IF IsNaN(x) THEN NaN
    ELSE IF IsInf(x) THEN (IF x.m < 0 THEN Zero ELSE PosInf)
    ELSE Exp2Fix(ToFix14(FMul(x, Norm(Log2Of10, -14))))

MathPI == Norm(25736, -13)

\* x^k / k!, the k-th term of the series of the sine (k odd), each from the
\* one before it.
RECURSIVE SinTerm(_, _)
SinTerm(x, k) ==
    IF k = 1 THEN x
    ELSE FDiv(FMul(SinTerm(x, k - 2), FMul(x, x)), FromInt((k - 1) * k))

\* Math.sin(x) by its Taylor series to x^11 (|x| <= 3), kept within [-1, 1].
MathSin(x) ==
    IF IsNaN(x) \/ IsInf(x) THEN NaN
    ELSE MathMax(FromInt(-1), MathMin(FromInt(1),
             FAdd(FSub(SinTerm(x, 1), SinTerm(x, 3)),
                  FAdd(FSub(SinTerm(x, 5), SinTerm(x, 7)),
                       FSub(SinTerm(x, 9), SinTerm(x, 11))))))

\* Number.prototype.toFixed(d): the printed decimal, kept as its digits n
\* (the number is n / 10^d); "NaN" and "Infinity" are printed as such.
ToFixed(x, d) ==
    IF IsNaN(x) THEN [text |-> "NaN", digits |-> d, n |-> 0]
    ELSE IF IsInf(x) THEN [text |-> "Infinity", digits |-> d, n |-> Sgn(x.m)]
    ELSE [text |-> "decimal", digits |-> d, n |-> Scaled(x, d)]

(***************************************************************************)
(* computeImpact (App.jsx 109-341).  The part after the awaited lookup is  *)
(* given the resolved popDensity; the part before it is pure, so the whole *)
(* result is a function of (latlng, s, popDensity).                        *)
(***************************************************************************)
MegatonJoules == Dec(4184, 12)      \* 4.184e15
KilotonJoules == Dec(4184, 9)       \* 4.184e12

\* The volume with the diameter cubed in place of the radius.
volumeOfDiameter(s) == FMul(FMul(FDiv(FromInt(4), FromInt(3)), MathPI), Cube(FromInt(s.diam)))
volumeOf(s) == FMul(FMul(FDiv(FromInt(4), FromInt(3)), MathPI), Cube(FDiv(FromInt(s.diam), FromInt(2))))
massOf(s) == FMul(FromInt(s.density), volumeOf(s))
\* The velocity in m/s with the speed setting left out.
velocityOfAnySpeed(s) == FMul(FromInt(1), FromInt(1000))
velocityOf(s) == FMul(FromInt(s.speed), FromInt(1000))
energyOf(s) == FMul(FMul(FMul(Dec(5, -1), massOf(s)), velocityOf(s)), velocityOf(s))
megatonsOf(s) == FDiv(energyOf(s), MegatonJoules)
impactAngleRadOf(s) == FDiv(FMul(FromInt(s.angle), MathPI), FromInt(180))

baseCraterDiameterOf(energy) == FMul(Dec(2, -2), MathPow(energy, 10, 34))
angleScalingOf(impactAngleRad) == MathPow(MathSin(impactAngleRad), 67, 100)
\* The crater diameter scaled by the angle factor alone, without the 30 % floor.
craterDiameterScaledOnly(baseCraterDiameter, angleScaling) ==
    FMul(baseCraterDiameter, angleScaling)
craterDiameterOf(baseCraterDiameter, angleScaling) ==
    FMul(baseCraterDiameter, FAdd(Dec(3, -1), FMul(Dec(7, -1), angleScaling)))
craterDepthOf(craterDiameter, angleScaling) == FMul(FMul(craterDiameter, Dec(2, -1)), angleScaling)
\* The airburst test on the diameter alone.
willAirburstBySizeOnly(s) == s.diam < 200
willAirburstOf(s) == s.diam < 200 /\ s.speed > 11 /\ s.angle > 15

\* Math.PI * Math.pow(radius / 1000, 2): the area in km^2 of a radius in metres.
AreaKm2(radius) == FMul(MathPI, Square(FDiv(radius, FromInt(1000))))

craterAreaOf(craterDiameter) == FMul(MathPI, Square(FDiv(craterDiameter, FromInt(2000))))
craterVaporizedOf(craterArea, popDensity) == MathRound(FMul(craterArea, FromInt(popDensity)))

fireballRadiusOf(energy) == FMul(MathPow(FDiv(energy, KilotonJoules), 4, 10), FromInt(1000))
\* The fireball count with the fatality rate of 0.9 written as 9.
fireballDeathsRateNine(fireballArea, popDensity) ==
    MathRound(FMul(FMul(fireballArea, FromInt(popDensity)), Dec(9, 0)))
fireballDeathsOf(fireballArea, popDensity) ==
    MathRound(FMul(FMul(fireballArea, FromInt(popDensity)), Dec(9, -1)))
burns3rdDegreeOf(fireballArea, popDensity) ==
    MathRound(FMul(FMul(fireballArea, FromInt(popDensity)), Dec(5, -2)))
burns2ndDegreeOf(fireballArea, popDensity) ==
    MathRound(FMul(FMul(fireballArea, FromInt(popDensity)), Dec(1, -1)))

shockWaveDecibelsOf(megatons) ==
    MathMin(FromInt(300), FAdd(FromInt(180), FMul(FromInt(20), MathLog10(megatons))))
shockWaveRadiusOf(energy) == FMul(MathPow(FDiv(energy, KilotonJoules), 33, 100), FromInt(2000))
shockWaveDeathsOf(shockWaveArea, popDensity) ==
    MathRound(FMul(FMul(shockWaveArea, FromInt(popDensity)), Dec(3, -1)))

windSpeedOf(energy) == FMul(MathPow(FDiv(energy, KilotonJoules), 25, 100), FromInt(500))
windRadiusOf(energy) == FMul(MathPow(FDiv(energy, KilotonJoules), 3, 10), FromInt(1500))
\* The wind count taken from the area alone, the density left out.
windDeathsFromArea(windArea, popDensity) == MathRound(FMul(windArea, Dec(4, -1)))
windDeathsOf(windArea, popDensity) ==
    MathRound(FMul(FMul(windArea, FromInt(popDensity)), Dec(4, -1)))

\* The magnitude without its cap of 10.
earthquakeMagnitudeUncapped(megatons) == FAdd(FromInt(4), MathLog10(megatons))
earthquakeMagnitudeOf(megatons) == MathMin(FromInt(10), FAdd(FromInt(4), MathLog10(megatons)))
\* The felt radius taken linear in the magnitude instead of a power of ten.
earthquakeRadiusLinear(earthquakeMagnitude) == FMul(earthquakeMagnitude, FromInt(10))
earthquakeRadiusOf(earthquakeMagnitude) == FMul(Pow10(earthquakeMagnitude), FromInt(10))
earthquakeDeathsOf(earthquakeArea, popDensity) ==
    MathRound(FMul(FMul(earthquakeArea, FromInt(popDensity)), Dec(1, -3)))

isOceanImpactOf(popDensity) == popDensity = 0
\* The tsunami guard without the one-megaton threshold.
tsunamiAppliesAnyYield(popDensity, megatons) == isOceanImpactOf(popDensity)
\* The guard of the tsunami branch (App.jsx 182).
tsunamiApplies(popDensity, megatons) ==
    isOceanImpactOf(popDensity) /\ FGreater(megatons, FromInt(1))

\* The branch with the deaths taken from the resolved density, which is 0 on
\* this branch.
tsunamiBranchResolvedDensity(tsunamiHeight, tsunamiRadius) ==
    LET coastalDensity == FromInt(0)
        affectedCoastLength == FMul(FMul(tsunamiRadius, MathPI), FromInt(2))
        coastalPenetration == MathMin(FMul(tsunamiHeight, FromInt(100)), FromInt(10000))
        tsunamiArea == FDiv(FMul(affectedCoastLength, coastalPenetration), FromInt(1000000))
    IN  [tsunamiHeight |-> tsunamiHeight,
         tsunamiRadius |-> tsunamiRadius,
         tsunamiDeaths |-> MathRound(FMul(FMul(tsunamiArea, coastalDensity), Dec(1, -1))),
         tsunamiAffectedCoasts |-> MathRound(FDiv(tsunamiRadius, FromInt(1000)))]
\* The branch taken (App.jsx 183-196), from the height and the radius.
tsunamiBranch(tsunamiHeight, tsunamiRadius) ==
    LET coastalDensity == FromInt(150)
        affectedCoastLength == FMul(FMul(tsunamiRadius, MathPI), FromInt(2))
        coastalPenetration == MathMin(FMul(tsunamiHeight, FromInt(100)), FromInt(10000))
        tsunamiArea == FDiv(FMul(affectedCoastLength, coastalPenetration), FromInt(1000000))
    IN  [tsunamiHeight |-> tsunamiHeight,
         tsunamiRadius |-> tsunamiRadius,
         tsunamiDeaths |-> MathRound(FMul(FMul(tsunamiArea, coastalDensity), Dec(1, -1))),
         tsunamiAffectedCoasts |-> MathRound(FDiv(tsunamiRadius, FromInt(1000)))]
\* The tsunami fields: zero unless the branch runs.
tsunamiOf(popDensity, energy, megatons) ==
    IF tsunamiApplies(popDensity, megatons)
    THEN tsunamiBranch(FMul(MathPow(FDiv(energy, MegatonJoules), 25, 100), FromInt(10)),
                       FMul(MathPow(FDiv(energy, KilotonJoules), 1, 2), FromInt(500)))
    ELSE [tsunamiHeight |-> Zero, tsunamiRadius |-> Zero,
          tsunamiDeaths |-> Zero, tsunamiAffectedCoasts |-> Zero]

earthSurfaceArea == FromInt(510100000)
oceanArea == FromInt(361900000)
landArea == FSub(earthSurfaceArea, oceanArea)
probabilityOcean == FMul(FDiv(oceanArea, earthSurfaceArea), FromInt(100))
probabilityLand == FMul(FDiv(landArea, earthSurfaceArea), FromInt(100))
urbanArea == FromInt(1500000)
probabilityUrban == FMul(FDiv(urbanArea, earthSurfaceArea), FromInt(100))
probabilityRural == FSub(probabilityLand, probabilityUrban)

\* The frequency with each breakpoint counted to the step above it.
impactFrequencyInclusive(megatons) ==
    IF FGeq(megatons, FromInt(10000)) THEN 65000000
    ELSE IF FGeq(megatons, FromInt(1000)) THEN 650000
    ELSE IF FGeq(megatons, FromInt(100)) THEN 65000
    ELSE IF FGeq(megatons, FromInt(10)) THEN 6500
    ELSE IF FGeq(megatons, FromInt(1)) THEN 650 ELSE 65
\* The step function of the yield (App.jsx 215-219).
impactFrequencyOf(megatons) ==
    IF FGreater(megatons, FromInt(10000)) THEN 65000000
    ELSE IF FGreater(megatons, FromInt(1000)) THEN 650000
    ELSE IF FGreater(megatons, FromInt(100)) THEN 65000
    ELSE IF FGreater(megatons, FromInt(10)) THEN 6500
    ELSE IF FGreater(megatons, FromInt(1)) THEN 650 ELSE 65

hurricaneComparisonOf(energy) == FDiv(energy, Dec(15, 15))

AU == Dec(1495978707, 2)
phaThreshold == FMul(Dec(5, -2), AU)
detectionDistance == MathMax(FMul(FromInt(1), AU), FMul(phaThreshold, FromInt(20)))
baseDeflectionAngle == FDiv(phaThreshold, detectionDistance)

angleEfficiencyOf(impactAngleRad) == MathSin(impactAngleRad)
effectiveDeflectionAngleOf(angleEfficiency) ==
    FDiv(baseDeflectionAngle, MathMax(angleEfficiency, Dec(1, -1)))
deltaVOf(currentVelocity, angleEfficiency) ==
    FMul(currentVelocity, effectiveDeflectionAngleOf(angleEfficiency))
deflectionEnergyOf(mass, deltaV) == FMul(FMul(FMul(Dec(5, -1), mass), deltaV), deltaV)

littleBoy == Dec(15, -3)
modernNuke == Dec(1, -1)
tsarBomba == FromInt(50)

\* The comparison with a modern warhead taken as 0.3 megatons.
bombComparisonWarhead300kt(deflectionMegatons) ==
    IF FGeq(deflectionMegatons, tsarBomba)
    THEN [text |-> "x Tsar Bomba", value |-> ToFixed(FDiv(deflectionMegatons, tsarBomba), 1)]
    ELSE IF FGeq(deflectionMegatons, Dec(3, -1))
    THEN [text |-> "x modern nukes", value |-> ToFixed(FDiv(deflectionMegatons, modernNuke), 1)]
    ELSE IF FGeq(deflectionMegatons, littleBoy)
    THEN [text |-> "x Hiroshima bombs", value |-> ToFixed(FDiv(deflectionMegatons, littleBoy), 1)]
    ELSE [text |-> " kilotons", value |-> ToFixed(FMul(deflectionMegatons, FromInt(1000)), 1)]
\* The comparison string: its number (toFixed(1)) and its wording.
bombComparisonOf(deflectionMegatons) ==
    IF FGeq(deflectionMegatons, tsarBomba)
    THEN [text |-> "x Tsar Bomba", value |-> ToFixed(FDiv(deflectionMegatons, tsarBomba), 1)]
    ELSE IF FGeq(deflectionMegatons, modernNuke)
    THEN [text |-> "x modern nukes", value |-> ToFixed(FDiv(deflectionMegatons, modernNuke), 1)]
    ELSE IF FGeq(deflectionMegatons, littleBoy)
    THEN [text |-> "x Hiroshima bombs", value |-> ToFixed(FDiv(deflectionMegatons, littleBoy), 1)]
    ELSE [text |-> " kilotons", value |-> ToFixed(FMul(deflectionMegatons, FromInt(1000)), 1)]

\* The field deflectionAngleEfficiency (App.jsx 336).
\* The reported efficiency with the divisor's floor of 0.1 applied to it.
deflectionAngleEfficiencyFloored(angleEfficiency) ==
    ToFixed(FMul(MathMax(angleEfficiency, Dec(1, -1)), FromInt(100)), 1)
deflectionAngleEfficiencyOf(angleEfficiency) == ToFixed(FMul(angleEfficiency, FromInt(100)), 1)

\* The shape with the two limits counted to the rounder shape.
craterShapeInclusive(s) ==
    IF s.angle >= 60 THEN "Circular" ELSE IF s.angle >= 30 THEN "Elliptical" ELSE "Highly Elongated"
craterShapeOf(s) ==
    IF s.angle > 60 THEN "Circular" ELSE IF s.angle > 30 THEN "Elliptical" ELSE "Highly Elongated"

\* The result object (App.jsx 267-340), from the constants c computed before it.
impactResult(latlng, s, popDensity, c) ==
    [lat |-> latlng.lat,
     lng |-> latlng.lng,
     mass |-> massOf(s),
     energy |-> c.energy,
     megatons |-> c.megatons,
     gigatons |-> FDiv(c.megatons, FromInt(1000)),
     craterDiameter |-> c.craterDiameter,
     craterDepth |-> craterDepthOf(c.craterDiameter, c.angleScaling),
     craterAngleScaling |-> ToFixed(FMul(c.angleScaling, FromInt(100)), 1),
     craterShape |-> craterShapeOf(s),
     blastRadius |-> FMul(c.craterDiameter, Dec(25, -1)),
     willAirburst |-> willAirburstOf(s),
     impactSpeed |-> FMul(velocityOf(s), Dec(2237, -3)),
     craterVaporized |-> craterVaporizedOf(craterAreaOf(c.craterDiameter), popDensity),
     fireballRadius |-> c.fireballRadius,
     fireballDeaths |-> fireballDeathsOf(AreaKm2(c.fireballRadius), popDensity),
     burns3rdDegree |-> burns3rdDegreeOf(AreaKm2(c.fireballRadius), popDensity),
     burns2ndDegree |-> burns2ndDegreeOf(AreaKm2(c.fireballRadius), popDensity),
     treeFires |-> FMul(c.fireballRadius, FromInt(10)),
     shockWaveDecibels |-> shockWaveDecibelsOf(c.megatons),
     shockWaveDeaths |-> shockWaveDeathsOf(AreaKm2(c.shockWaveRadius), popDensity),
     lungDamageRadius |-> FMul(c.shockWaveRadius, Dec(3, -1)),
     eardrumRadius |-> FMul(c.shockWaveRadius, Dec(4, -1)),
     buildingCollapseRadius |-> FMul(c.shockWaveRadius, Dec(7, -1)),
     homeCollapseRadius |-> FMul(c.shockWaveRadius, Dec(9, -1)),
     windSpeed |-> windSpeedOf(c.energy),
     windDeaths |-> windDeathsOf(AreaKm2(c.windRadius), popDensity),
     jupiterWindRadius |-> FMul(c.windRadius, Dec(2, -1)),
     leveledRadius |-> FMul(c.windRadius, Dec(4, -1)),
     tornadoRadius |-> FMul(c.windRadius, Dec(7, -1)),
     treeKnockRadius |-> FMul(c.windRadius, Dec(12, -1)),
     earthquakeMagnitude |-> c.earthquakeMagnitude,
     earthquakeDeaths |-> earthquakeDeathsOf(AreaKm2(c.earthquakeRadius), popDensity),
     earthquakeRadius |-> c.earthquakeRadius,
     isOceanImpact |-> isOceanImpactOf(popDensity),
     tsunamiHeight |-> c.tsunami.tsunamiHeight,
     tsunamiRadius |-> c.tsunami.tsunamiRadius,
     tsunamiDeaths |-> c.tsunami.tsunamiDeaths,
     tsunamiAffectedCoasts |-> c.tsunami.tsunamiAffectedCoasts,
     probabilityOcean |-> ToFixed(probabilityOcean, 1),
     probabilityLand |-> ToFixed(probabilityLand, 1),
     probabilityUrban |-> ToFixed(probabilityUrban, 2),
     probabilityRural |-> ToFixed(probabilityRural, 1),
     impactFrequency |-> impactFrequencyOf(c.megatons),
     hurricaneComparison |-> hurricaneComparisonOf(c.energy),
     deflectionDeltaV |-> ToFixed(c.deltaV, 2),
     deflectionEnergy |-> c.deflectionEnergy,
     deflectionMegatons |-> c.deflectionMegatons,
     deflectionBombComparison |-> bombComparisonOf(c.deflectionMegatons),
     deflectionImpactAngle |-> s.angle,
     deflectionAngleEfficiency |-> deflectionAngleEfficiencyOf(c.angleEfficiency),
     populationDensity |-> MathRound(FromInt(popDensity))]

\* The effects (App.jsx 124-265), from the energy and the two sines of the angle.
impactEffects(latlng, s, popDensity, energy, megatons, angleScaling, angleEfficiency, earthquakeMagnitude, deltaV) ==
    impactResult(latlng, s, popDensity,
        [energy |-> energy,
         megatons |-> megatons,
         angleScaling |-> angleScaling,
         angleEfficiency |-> angleEfficiency,
         craterDiameter |-> craterDiameterOf(baseCraterDiameterOf(energy), angleScaling),
         fireballRadius |-> fireballRadiusOf(energy),
         shockWaveRadius |-> shockWaveRadiusOf(energy),
         windRadius |-> windRadiusOf(energy),
         earthquakeMagnitude |-> earthquakeMagnitude,
         earthquakeRadius |-> earthquakeRadiusOf(earthquakeMagnitude),
         tsunami |-> tsunamiOf(popDensity, energy, megatons),
         deltaV |-> deltaV,
         deflectionEnergy |-> deflectionEnergyOf(massOf(s), deltaV),
         deflectionMegatons |-> FDiv(deflectionEnergyOf(massOf(s), deltaV), MegatonJoules)])

computeImpact(latlng, s, popDensity) ==
    impactEffects(latlng, s, popDensity, energyOf(s), megatonsOf(s),
                  angleScalingOf(impactAngleRadOf(s)), angleEfficiencyOf(impactAngleRadOf(s)),
                  earthquakeMagnitudeOf(megatonsOf(s)),
                  deltaVOf(velocityOf(s), angleEfficiencyOf(impactAngleRadOf(s))))

(***************************************************************************)
(* JSON values as the service may answer them.  A number is kept in        *)
(* thousandths (milli); a string is the sequence of its characters; an     *)
(* object keeps the two properties the code reads, value and results.      *)
(***************************************************************************)
JUndefined == [t |-> "undefined"]
JNull == [t |-> "null"]
JNum(milli) == [t |-> "number", milli |-> milli]
JStr(chars) == [t |-> "string", chars |-> chars]
JBool(b) == [t |-> "boolean", b |-> b]
JArr(items) == [t |-> "array", items |-> items]
JObj(v, rs) == [t |-> "object", value |-> v, results |-> rs]

Digits == <<"0", "1", "2", "3", "4", "5", "6", "7", "8", "9">>
IsDigit(c) == \E i \in 1..10 : Digits[i] = c
DigitValue(c) == (CHOOSE i \in 1..10 : Digits[i] = c) - 1

NumNaN == [nan |-> TRUE, milli |-> 0]
Num(milli) == [nan |-> FALSE, milli |-> milli]

RECURSIVE TrimLeft(_)
TrimLeft(cs) == IF cs # <<>> /\ Head(cs) = " " THEN TrimLeft(Tail(cs)) ELSE cs
RECURSIVE TrimRight(_)
TrimRight(cs) ==
    IF cs # <<>> /\ cs[Len(cs)] = " " THEN TrimRight(SubSeq(cs, 1, Len(cs) - 1)) ELSE cs

\* The digits of cs before the first non-digit, as a number; and how many.
RECURSIVE DigitRun(_, _, _)
DigitRun(cs, acc, n) ==
    IF cs # <<>> /\ IsDigit(Head(cs))
    THEN DigitRun(Tail(cs), acc * 10 + DigitValue(Head(cs)), n + 1)
    ELSE [value |-> acc, count |-> n, rest |-> cs]

\* The number of a literal read to `rest`, of so many digits: NaN unless it
\* was read to its end and has a digit.
Literal(neg, digits, rest, magnitude) ==
    IF rest # <<>> \/ digits = 0 THEN NumNaN
    ELSE Num(IF neg THEN -magnitude ELSE magnitude)
\* The literal with a fraction: its first three digits f3 are the thousandths.
Fraction(neg, int, fracChars, frac) ==
    LET f3 == DigitRun(SubSeq(fracChars, 1, IF frac.count < 3 THEN frac.count ELSE 3), 0, 0)
        fracMilli == IF f3.count = 0 THEN 0
                     ELSE IF f3.count = 1 THEN f3.value * 100
                     ELSE IF f3.count = 2 THEN f3.value * 10 ELSE f3.value
    IN  Literal(neg, int.count + frac.count, frac.rest, int.value * 1000 + fracMilli)
\* The literal after its sign, from the run int of its integer digits.
Unsigned(neg, int) ==
    IF int.rest # <<>> /\ Head(int.rest) = "."
    THEN Fraction(neg, int, Tail(int.rest), DigitRun(Tail(int.rest), 0, 0))
    ELSE Literal(neg, int.count, int.rest, int.value * 1000)
\* Number(string) for decimal literals: optional sign, digits, optional
\* fraction (kept to its first three digits); the empty string is 0; anything
\* else is NaN.  Exponents, hex literals and "Infinity" are not among the
\* strings modelled.
StringToNumber(chars) ==
    LET cs == TrimRight(TrimLeft(chars))
    IN  IF cs = <<>> THEN Num(0)
        ELSE Unsigned(Head(cs) = "-",
                      DigitRun(IF Head(cs) \in {"-", "+"} THEN Tail(cs) ELSE cs, 0, 0))

\* Number(x), the coercion that isNaN and Math.round apply to their argument.
ToNumber(j) ==
    CASE j.t = "number" -> Num(j.milli)
      [] j.t = "undefined" -> NumNaN
      [] j.t = "null" -> Num(0)
      [] j.t = "boolean" -> Num(IF j.b THEN 1000 ELSE 0)
      [] j.t = "string" -> StringToNumber(j.chars)
      [] j.t = "array" ->
            IF Len(j.items) = 0 THEN Num(0)
            ELSE IF Len(j.items) > 1 THEN NumNaN
            ELSE LET x == j.items[1]
                 IN  CASE x.t = "number" -> Num(x.milli)
                       [] x.t = "string" -> StringToNumber(x.chars)
                       [] x.t \in {"null", "undefined"} -> Num(0)
                       [] OTHER -> NumNaN
      [] OTHER -> NumNaN

\* x.value: a TypeError on null and undefined, undefined on anything but an object.
GetValue(j) ==
    IF j.t \in {"null", "undefined"} THEN [kind |-> "throw", error |-> "TypeError"]
    ELSE [kind |-> "ok", v |-> IF j.t = "object" THEN j.value ELSE JUndefined]

\* data.results && data.results.length > 0
HasResults(data) ==
    /\ data.t = "object"
    /\ \/ data.results.t = "array" /\ Len(data.results.items) > 0
       \/ data.results.t = "string" /\ Len(data.results.chars) > 0

\* data.results[0]
FirstResult(data) ==
    IF data.results.t = "array" THEN data.results.items[1]
    ELSE JStr(<<data.results.chars[1]>>)

noData == JStr(<<"n", "o", "D", "a", "t", "a">>)
NoData == JStr(<<"N", "o", "D", "a", "t", "a">>)

FallbackDensity == 57
TimeoutSeconds == 5

\* Math.max(0, Math.round(density)) of a number in thousandths.
RoundNonNegative(milli) ==
    LET r == (milli + 500) \div 1000 IN IF r < 0 THEN 0 ELSE r

\* The last steps of the try block (App.jsx 92-98), on the density found.
densityOrAverage(density) ==
    IF density.t \in {"null", "undefined"} \/ ToNumber(density).nan
    THEN [kind |-> "return", value |-> FallbackDensity]
    ELSE [kind |-> "return", value |-> RoundNonNegative(ToNumber(density).milli)]

\* The try block from the parsed body on (App.jsx 76-98): what it returns, or
\* the error it throws.
parseDensity(data) ==
    LET dv == GetValue(data)
    IN  IF dv.kind = "throw" THEN dv
        ELSE IF dv.v \in {noData, NoData} THEN [kind |-> "return", value |-> 0]
        ELSE LET density == IF dv.v.t \notin {"null", "undefined"} THEN dv.v ELSE JNull
             IN  IF density = JNull /\ HasResults(data)
                 THEN LET rv == GetValue(FirstResult(data))
                      IN  IF rv.kind = "throw" THEN rv
                          ELSE IF rv.v \in {noData, NoData}
                               THEN [kind |-> "return", value |-> 0]
                               ELSE densityOrAverage(rv.v)
                 ELSE densityOrAverage(density)

\* A catch block that logs and rethrows.
catchBlockRethrows(error) == [kind |-> "reject", error |-> error]
\* The catch block (App.jsx 99-106): it logs and returns the global average
\* for every error.
catchBlock(error) == [kind |-> "resolve", value |-> FallbackDensity]

\* How the promise of fetchPopulationDensity settles when fetch settles with
\* f: a rejection (network failure, abort) or a response that is not ok ends
\* in the catch block; an ok response goes on to response.json().
afterFetch(f) ==
    IF f.kind = "reject" THEN catchBlock(f.error)
    ELSE IF ~f.ok THEN catchBlock("Error")
    ELSE [kind |-> "pending"]

\* The try block ended with r: what it returns resolves the promise, what it
\* throws goes to the catch block.
tryBlock(r) ==
    IF r.kind = "throw" THEN catchBlock(r.error)
    ELSE [kind |-> "resolve", value |-> r.value]

\* How it settles when response.json() settles with b: a rejection (invalid
\* JSON) or an error thrown while reading the data ends in the catch block.
afterJson(b) ==
    IF b.kind = "reject" THEN catchBlock(b.error)
    ELSE tryBlock(parseDensity(b.data))

\* computeImpact as the async function it is: it awaits the lookup, whose
\* rejection (were there one) would reject it, and has no throw of its own.
computeImpactAsync(latlng, s, fetched) ==
    IF fetched.kind = "reject" THEN [kind |-> "rejected", error |-> fetched.error]
    ELSE [kind |-> "fulfilled", value |-> computeImpact(latlng, s, fetched.value)]

(***************************************************************************)
(* State                                                                   *)
(***************************************************************************)
VARIABLES
    settings,           \* useState: { diam, speed, angle, density }
    selectedLocation,   \* useState: the target, or Null
    impact,             \* useState: the impact marker, or Null
    results,            \* useState: the displayed ImpactResult, or Null
    isAnimating,        \* useState
    showExplosion,      \* useState
    isCalculating,      \* useState
    flightTimer,        \* the pending 1000 ms timer of handleLaunch, with its closure
    explosionTimer,     \* the pending 500 ms timer, with its closure
    lookups,            \* the computeImpact calls awaiting fetchPopulationDensity
    issued,             \* history: how many computeImpact calls were started
    resultsFrom,        \* history: the call that produced results
    caught,             \* history: a catch branch of a handler has run
    superseded,         \* history: the launch and the calls begun before a clearing action
    ignoredClick,       \* history: a map click arrived during a launch and was ignored
    call,               \* one call of computeImpact on its own: arguments, result
    req                 \* one call of fetchPopulationDensity on its own

uiVars == <<settings, selectedLocation, impact, results, isAnimating, showExplosion,
            isCalculating, flightTimer, explosionTimer, lookups, issued, resultsFrom,
            caught, superseded, ignoredClick>>
vars == <<settings, selectedLocation, impact, results, isAnimating, showExplosion,
          isCalculating, flightTimer, explosionTimer, lookups, issued, resultsFrom,
          caught, superseded, ignoredClick, call, req>>

Null == [null |-> TRUE]

DefaultSettings == [diam |-> 500, speed |-> 17, angle |-> 45, density |-> 3500]

\* The state after the first render of App (App.jsx 39-45).
UIInit ==
    /\ settings = DefaultSettings
    /\ selectedLocation = Null
    /\ impact = Null
    /\ results = Null
    /\ isAnimating = FALSE
    /\ showExplosion = FALSE
    /\ isCalculating = FALSE
    /\ flightTimer = Null
    /\ explosionTimer = Null
    /\ lookups = {}
    /\ issued = 0
    /\ resultsFrom = Null
    /\ caught = FALSE
    /\ superseded = [launch |-> FALSE, calls |-> {}]
    /\ ignoredClick = FALSE

ReqIdle == [phase |-> "idle"]

\* The parameter domain of the engine: diameter, speed, density > 0 and the
\* angle in (0, 90].
InDomain(s) == s.diam > 0 /\ s.speed > 0 /\ s.density > 0 /\ s.angle > 0 /\ s.angle <= 90

(***************************************************************************)
(* computeImpact on its own: the arguments are drawn from the values below *)
(* and the function is applied to them.                                    *)
(***************************************************************************)
MinAngle == 1
MaxAngle == 89

GridSettings ==
    {[diam |-> d, speed |-> v, angle |-> a, density |-> rho] :
        d \in {1, 50, 500, 2000}, v \in {1, 17, 72}, a \in {1, 15, 45, 89},
        rho \in {2700, 7800}}
AngleSweep == {[DefaultSettings EXCEPT !.angle = a] : a \in MinAngle..MaxAngle \cup {90}}
OutOfDomainSettings ==
    {[DefaultSettings EXCEPT !.diam = 0], [DefaultSettings EXCEPT !.diam = -10],
     [DefaultSettings EXCEPT !.speed = 0], [DefaultSettings EXCEPT !.speed = -5],
     [DefaultSettings EXCEPT !.density = 0], [DefaultSettings EXCEPT !.density = -1],
     [DefaultSettings EXCEPT !.angle = 0], [DefaultSettings EXCEPT !.angle = -10],
     [DefaultSettings EXCEPT !.angle = 120]}
\* Settings on both sides of the three airburst thresholds, and a small fast
\* steep body.
AirburstSettings ==
    {[diam |-> d, speed |-> v, angle |-> a, density |-> 3200] :
        d \in {199, 200}, v \in {11, 12}, a \in {15, 16}}
      \cup {[diam |-> 50, speed |-> 20, angle |-> 30, density |-> 3000]}
CallDensities == {0, 57, 186, 1200, 25000}

ImpactInit ==
    /\ UIInit
    /\ req = ReqIdle
    /\ call \in {[latlng |-> [lat |-> 20, lng |-> 0], s |-> s, popDensity |-> p, ret |-> Null] :
                    s \in GridSettings \cup AngleSweep \cup AirburstSettings
                            \cup OutOfDomainSettings,
                    p \in CallDensities}

CallComputeImpact ==
    /\ call.ret = Null
    /\ call' = [call EXCEPT !.ret = computeImpactAsync(call.latlng, call.s,
                                        [kind |-> "resolve", value |-> call.popDensity])]
    /\ UNCHANGED <<uiVars, req>>

ImpactNext == CallComputeImpact

SpecImpact == ImpactInit /\ [][ImpactNext]_vars

(***************************************************************************)
(* fetchPopulationDensity on its own (App.jsx 49-107), with the clock of   *)
(* its 5 s timer in seconds.                                               *)
(***************************************************************************)
MaxClock == 7

Entry(value) == JObj(value, JUndefined)
\* Bodies the service may send once parsed.
Bodies ==
    {JNull, JNum(3000), JObj(JUndefined, JUndefined), Entry(JNull),
     Entry(noData), Entry(NoData),
     Entry(JNum(1200400)), Entry(JNum(400)), Entry(JNum(500)), Entry(JNum(-2500)),
     Entry(JStr(<<"3", "7", ".", "5">>)), Entry(JStr(<<>>)), Entry(JStr(<<"a", "b", "c">>)),
     Entry(JBool(TRUE)), Entry(JBool(FALSE)), Entry(JArr(<<>>)),
     JObj(JUndefined, JArr(<<>>)),
     JObj(JUndefined, JArr(<<Entry(JNum(88000))>>)),
     JObj(JNull, JArr(<<Entry(NoData)>>)),
     JObj(JUndefined, JArr(<<JNull>>)),
     JObj(JUndefined, JArr(<<Entry(JUndefined)>>))}

FetchInit ==
    /\ UIInit
    /\ call = Null
    /\ req = ReqIdle

\* The call: the timer is armed and fetch is started (App.jsx 51-65).
StartFetch(lat, lng) ==
    /\ req.phase = "idle"
    /\ req' = [phase |-> "fetch", lat |-> lat, lng |-> lng, clock |-> 0,
               timerArmed |-> TRUE, answer |-> Null, settled |-> [kind |-> "pending"]]
    /\ UNCHANGED <<uiVars, call>>

\* A second passes.  The timer fires when its 5 s are over, not later.
Tick ==
    /\ req.phase \in {"fetch", "body"}
    /\ req.clock < MaxClock
    /\ ~(req.timerArmed /\ req.clock = TimeoutSeconds)
    /\ req' = [req EXCEPT !.clock = @ + 1]
    /\ UNCHANGED <<uiVars, call>>

Settle(r, answer, outcome) ==
    [r EXCEPT !.answer = answer,
              !.settled = outcome,
              !.phase = IF outcome.kind = "pending" THEN "body" ELSE "done"]

\* The timer's callback, controller.abort(): a pending fetch rejects with an
\* AbortError (App.jsx 52).
TimerFires ==
    /\ req.phase # "idle"
    /\ req.timerArmed
    /\ req.clock = TimeoutSeconds
    /\ req' = IF req.phase = "fetch"
              THEN [Settle(req, [kind |-> "abort"],
                           afterFetch([kind |-> "reject", error |-> "AbortError"]))
                       EXCEPT !.timerArmed = FALSE]
              ELSE [req EXCEPT !.timerArmed = FALSE]
    /\ UNCHANGED <<uiVars, call>>

\* fetch rejects: the network failed.  clearTimeout is not reached.
FetchRejects ==
    /\ req.phase = "fetch"
    /\ req' = Settle(req, [kind |-> "networkError"],
                     afterFetch([kind |-> "reject", error |-> "TypeError"]))
    /\ UNCHANGED <<uiVars, call>>

\* fetch resolves with the response headers; the timer is cleared
\* (App.jsx 62-70).
FetchResolves(ok) ==
    /\ req.phase = "fetch"
    /\ req' = [Settle(req, [kind |-> "response", ok |-> ok],
                      afterFetch([kind |-> "response", ok |-> ok]))
                  EXCEPT !.timerArmed = FALSE]
    /\ UNCHANGED <<uiVars, call>>

\* response.json() rejects: the body is not valid JSON.
JsonRejects ==
    /\ req.phase = "body"
    /\ req' = Settle(req, [kind |-> "invalidJSON"],
                     afterJson([kind |-> "reject", error |-> "SyntaxError"]))
    /\ UNCHANGED <<uiVars, call>>

\* response.json() resolves with the parsed body (App.jsx 72-98).
JsonResolves(data) ==
    /\ req.phase = "body"
    /\ req' = Settle(req, [kind |-> "body", data |-> data],
                     afterJson([kind |-> "data", data |-> data]))
    /\ UNCHANGED <<uiVars, call>>

FetchNext ==
    \/ \E lat \in {-45, 20}, lng \in {0, 100} : StartFetch(lat, lng)
    \/ Tick
    \/ TimerFires
    \/ FetchRejects
    \/ \E ok \in BOOLEAN : FetchResolves(ok)
    \/ JsonRejects
    \/ \E data \in Bodies : JsonResolves(data)

SpecFetch == FetchInit /\ [][FetchNext]_vars

(***************************************************************************)
(* The App component: the handlers the user's events run, the two timers   *)
(* of a launch, and the computeImpact calls awaiting their lookup.         *)
(***************************************************************************)
\* The most computeImpact calls a run starts.
MaxIssued == 3

\* Places the user clicks and places handleSelectAsteroid draws.
UILocations == {[lat |-> 20, lng |-> 0], [lat |-> -45, lng |-> 120]}
\* What the diameter slider's onChange passes to handleSettingsChange.
Partials == {[diam |-> 340], [diam |-> 1000]}
\* What NearEarthObjects passes to onSelectAsteroid (handleSimulateImpact).
AsteroidSettings == {[diam |-> 340, speed |-> 17, angle |-> 45, density |-> 3500]}
\* How fetch settles for a lookup: the network fails, the 5 s timer aborts
\* it, or the headers arrive with a status that is OK or not.
UIFetchOutcomes ==
    {[kind |-> "reject", error |-> "TypeError"],
     [kind |-> "reject", error |-> "AbortError"],
     [kind |-> "response", ok |-> FALSE],
     [kind |-> "response", ok |-> TRUE]}
\* How response.json() settles for a lookup.
UIBodyOutcomes ==
    {[kind |-> "reject", error |-> "SyntaxError"],
     [kind |-> "data", data |-> Entry(JNum(186400))]}

\* { ...s, ...partial }
Merge(s, partial) ==
    [k \in DOMAIN s |-> IF k \in DOMAIN partial THEN partial[k] ELSE s[k]]

\* The settings the handlers can install, and the ways a lookup can settle.
UISettings ==
    {DefaultSettings} \cup AsteroidSettings
        \cup {Merge(b, p) : b \in {DefaultSettings} \cup AsteroidSettings, p \in Partials}
UISettled ==
    {o \in {afterFetch(f) : f \in UIFetchOutcomes} \cup {afterJson(b) : b \in UIBodyOutcomes} :
        o.kind # "pending"}
\* computeImpact is a function of its arguments and the lookup's outcome: its
\* outcomes for the calls the handlers can make, computed once.
UIComputed ==
    {<<a, computeImpactAsync(a.latlng, a.s, a.fetched)>> :
        a \in [latlng : UILocations, s : UISettings, fetched : UISettled]}
\* computeImpact reading the settings of the moment its lookup settles.
awaitComputeImpactLateSettings(latlng, s, fetched) ==
    (CHOOSE p \in UIComputed :
        p[1] = [latlng |-> latlng, s |-> settings, fetched |-> fetched])[2]
awaitComputeImpact(latlng, s, fetched) ==
    (CHOOSE p \in UIComputed :
        p[1] = [latlng |-> latlng, s |-> s, fetched |-> fetched])[2]

\* A call computeImpact(latlng, s) up to its await of fetchPopulationDensity
\* (App.jsx 109-121).  id numbers the calls in the order they start
\* (history: the code keeps no such number).
StartLookup(origin, latlng, s) ==
    /\ issued < MaxIssued
    /\ issued' = issued + 1
    /\ lookups' = lookups \cup {[id |-> issued + 1, origin |-> origin, latlng |-> latlng,
                                  s |-> s, phase |-> "fetch"]}

Init == UIInit /\ call = Null /\ req = ReqIdle

\* History: what is pending when results is cleared, the launch whose timers
\* are set and the calls awaiting their lookup.
Pending ==
    [launch |-> flightTimer # Null \/ explosionTimer # Null,
     calls |-> {l.id : l \in lookups}]

\* The handler without its test of the two flags.
handleMapClickUnguarded(latlng) ==
    /\ selectedLocation' = latlng
    /\ impact' = Null
    /\ results' = Null
    /\ resultsFrom' = Null
    /\ superseded' = Pending
    /\ UNCHANGED <<settings, isAnimating, showExplosion, isCalculating, flightTimer,
                   explosionTimer, lookups, issued, caught, call, req, ignoredClick>>

\* A click on the map: the handler returns without an effect while the
\* asteroid flies or the explosion is shown (App.jsx 343-351).
handleMapClick(latlng) ==
    IF ~isAnimating /\ ~showExplosion
    THEN /\ selectedLocation' = latlng
         /\ impact' = Null
         /\ results' = Null
         /\ resultsFrom' = Null
         /\ superseded' = Pending
         /\ UNCHANGED <<settings, isAnimating, showExplosion, isCalculating, flightTimer,
                        explosionTimer, lookups, issued, caught, call, req, ignoredClick>>
    ELSE /\ ignoredClick' = TRUE
         /\ UNCHANGED <<settings, selectedLocation, impact, results, isAnimating,
                        showExplosion, isCalculating, flightTimer, explosionTimer,
                        lookups, issued, resultsFrom, caught, superseded, call, req>>

\* A Launch button rendered whenever a target is selected, animating or not.
handleLaunchWhileAnimating ==
    /\ selectedLocation # Null
    /\ impact' = selectedLocation
    /\ isAnimating' = TRUE
    /\ showExplosion' = FALSE
    /\ flightTimer' = [latlng |-> selectedLocation, s |-> settings]
    /\ superseded' = [superseded EXCEPT !.launch = FALSE]
    /\ UNCHANGED <<settings, selectedLocation, results, isCalculating, explosionTimer,
                   lookups, issued, resultsFrom, caught, call, req, ignoredClick>>

\* The Launch button is rendered when a target is selected and nothing is
\* animating (App.jsx 551); the timers' callbacks keep the location and the
\* settings of the render that ran handleLaunch.
handleLaunch ==
    /\ selectedLocation # Null /\ ~isAnimating /\ ~showExplosion
    /\ impact' = selectedLocation
    /\ isAnimating' = TRUE
    /\ showExplosion' = FALSE
    /\ flightTimer' = [latlng |-> selectedLocation, s |-> settings]
    /\ superseded' = [superseded EXCEPT !.launch = FALSE]
    /\ UNCHANGED <<settings, selectedLocation, results, isCalculating, explosionTimer,
                   lookups, issued, resultsFrom, caught, call, req, ignoredClick>>

\* The 1000 ms callback (App.jsx 361-366, 379).
FlightTimerFires ==
    /\ flightTimer # Null
    /\ isAnimating' = FALSE
    /\ showExplosion' = TRUE
    /\ explosionTimer' = flightTimer
    /\ flightTimer' = Null
    /\ UNCHANGED <<settings, selectedLocation, impact, results, isCalculating, lookups,
                   issued, resultsFrom, caught, call, req, superseded, ignoredClick>>

\* The 500 ms callback up to its await (App.jsx 366-369).
ExplosionTimerFires ==
    /\ explosionTimer # Null
    /\ isCalculating' = TRUE
    /\ StartLookup("launch", explosionTimer.latlng, explosionTimer.s)
    /\ explosionTimer' = Null
    /\ superseded' = [launch |-> FALSE,
                      calls |-> superseded.calls
                                  \cup (IF superseded.launch THEN {issued + 1} ELSE {})]
    /\ UNCHANGED <<settings, selectedLocation, impact, results, isAnimating,
                   showExplosion, flightTimer, resultsFrom, caught, call, req, ignoredClick>>

\* The guard without its test of results.
recomputesWhenTargeted == selectedLocation # Null
\* selectedLocation && results (App.jsx 412)
recomputes == selectedLocation # Null /\ results # Null

\* handleSettingsChange up to its await (App.jsx 410-414).
handleSettingsChange(partial) ==
    /\ settings' = Merge(settings, partial)
    /\ IF recomputes
       THEN StartLookup("settings", selectedLocation, Merge(settings, partial))
       ELSE UNCHANGED <<lookups, issued>>
    /\ UNCHANGED <<selectedLocation, impact, results, isAnimating, showExplosion,
                   isCalculating, flightTimer, explosionTimer, resultsFrom, caught,
                   call, req, superseded, ignoredClick>>

handleSelectAsteroid(asteroidSettings, impactLocation) ==
    /\ settings' = asteroidSettings
    /\ selectedLocation' = impactLocation
    /\ impact' = Null
    /\ results' = Null
    /\ resultsFrom' = Null
    /\ superseded' = Pending
    /\ UNCHANGED <<isAnimating, showExplosion, isCalculating, flightTimer,
                   explosionTimer, lookups, issued, caught, call, req, ignoredClick>>

handleReset ==
    /\ settings' = DefaultSettings
    /\ selectedLocation' = Null
    /\ impact' = Null
    /\ results' = Null
    /\ resultsFrom' = Null
    /\ superseded' = Pending
    /\ UNCHANGED <<isAnimating, showExplosion, isCalculating, flightTimer,
                   explosionTimer, lookups, issued, caught, call, req, ignoredClick>>

\* The Reset button of the target panel, rendered while a target is selected
\* (App.jsx 507, 531-542).
ResetTarget ==
    /\ selectedLocation # Null
    /\ settings' = DefaultSettings
    /\ selectedLocation' = Null
    /\ impact' = Null
    /\ results' = Null
    /\ resultsFrom' = Null
    /\ superseded' = Pending
    /\ UNCHANGED <<isAnimating, showExplosion, isCalculating, flightTimer,
                   explosionTimer, lookups, issued, caught, call, req, ignoredClick>>

\* The clear-target button of the target panel (App.jsx 507, 524-530).
ClearTarget ==
    /\ selectedLocation # Null
    /\ selectedLocation' = Null
    /\ superseded' = Pending
    /\ UNCHANGED <<settings, impact, results, isAnimating, showExplosion,
                   isCalculating, flightTimer, explosionTimer, lookups, issued,
                   resultsFrom, caught, call, req, ignoredClick>>

\* setResults(res) skipped when a later call has already installed its result.
InstallsIfNewest(l, r) ==
    r.kind = "fulfilled" /\ (resultsFrom = Null \/ resultsFrom.id < l.id)
\* Whether the code after the await reaches setResults(res): it does unless
\* the awaited computeImpact rejected (App.jsx 369-370, 414-415).
Installs(l, r) == r.kind = "fulfilled"

\* History: the call whose result is on display, and the call whose result
\* it replaced, if any.
InstalledBy(l, fetched) ==
    [id |-> l.id, origin |-> l.origin, latlng |-> l.latlng, s |-> l.s,
     popDensity |-> fetched.value, replaced |-> IF resultsFrom = Null THEN Null
                  ELSE [id |-> resultsFrom.id, origin |-> resultsFrom.origin,
                        s |-> resultsFrom.s]]

\* The rest of a handler once its computeImpact call settled with r, the
\* lookup having settled with `fetched`: the handler's try, catch and finally
\* (App.jsx 369-377 for a launch, 414-418 for a settings change).
Continue(l, fetched, r) ==
    /\ lookups' = lookups \ {l}
    /\ results' = IF Installs(l, r) THEN r.value ELSE results
    /\ resultsFrom' = IF Installs(l, r) THEN InstalledBy(l, fetched) ELSE resultsFrom
    /\ caught' = (caught \/ r.kind = "rejected")
    /\ IF l.origin = "launch"
       THEN showExplosion' = FALSE /\ isCalculating' = FALSE
       ELSE UNCHANGED <<showExplosion, isCalculating>>
    /\ superseded' = [superseded EXCEPT !.calls = @ \ {l.id}]
    /\ UNCHANGED <<settings, selectedLocation, impact, isAnimating, flightTimer,
                   explosionTimer, issued, call, req, ignoredClick>>

\* fetch resolves with the headers of an OK response for a pending call; the
\* call goes on to read the body (App.jsx 62-72).
LookupHeadersArrive(l) ==
    /\ l \in lookups
    /\ l.phase = "fetch"
    /\ afterFetch([kind |-> "response", ok |-> TRUE]).kind = "pending"
    /\ lookups' = (lookups \ {l}) \cup {[l EXCEPT !.phase = "body"]}
    /\ UNCHANGED <<settings, selectedLocation, impact, results, isAnimating,
                   showExplosion, isCalculating, flightTimer, explosionTimer, issued,
                   resultsFrom, caught, call, req, superseded, ignoredClick>>

\* The ways the lookup of a pending call can settle in its phase: fetch
\* settles otherwise than with an OK response (App.jsx 62-70, 99-106), or
\* response.json() settles (App.jsx 72-106).
SettlesWith(l) ==
    IF l.phase = "fetch"
    THEN {o \in {afterFetch(f) : f \in UIFetchOutcomes} : o.kind # "pending"}
    ELSE {afterJson(b) : b \in UIBodyOutcomes}

\* The lookup of call l settles with `fetched`: computeImpact finishes and
\* the handler that awaits it goes on.
LookupSettles(l, fetched) ==
    /\ l \in lookups
    /\ fetched \in SettlesWith(l)
    /\ Continue(l, fetched, awaitComputeImpact(l.latlng, l.s, fetched))

Next ==
    \/ \E latlng \in UILocations : handleMapClick(latlng)
    \/ handleLaunch
    \/ FlightTimerFires
    \/ ExplosionTimerFires
    \/ \E partial \in Partials : handleSettingsChange(partial)
    \/ \E a \in AsteroidSettings, loc \in UILocations : handleSelectAsteroid(a, loc)
    \/ handleReset
    \/ ResetTarget
    \/ ClearTarget
    \/ \E l \in lookups : LookupHeadersArrive(l)
    \/ \E l \in lookups, fetched \in UISettled : LookupSettles(l, fetched)

Spec == Init /\ [][Next]_vars

\* The lookup of call i leaves the wait for the response headers: they
\* arrive, fetch fails, or the 5 s timer aborts it (App.jsx 52, 62-70).
FetchEnds(i) ==
    \E l \in lookups :
        /\ l.id = i
        /\ l.phase = "fetch"
        /\ \/ LookupHeadersArrive(l)
           \/ \E fetched \in UISettled : LookupSettles(l, fetched)

\* What the scheduling guarantees: a timer that is set fires, and the wait
\* for the headers ends, by the abort timer at the latest.  Nothing bounds
\* the reading of the body (App.jsx 66, 72).
Scheduling ==
    /\ WF_vars(FlightTimerFires)
    /\ WF_vars(ExplosionTimerFires)
    /\ \A i \in 1..MaxIssued : WF_vars(FetchEnds(i))

SpecLive == Init /\ [][Next]_vars /\ Scheduling

(***************************************************************************)
(* Properties of computeImpact, checked under SpecImpact.                  *)
(***************************************************************************)
Called == call # Null /\ call.ret # Null
Returned == Called /\ call.ret.kind = "fulfilled"
One == FromInt(1)

\* C1: whenever populationDensity # 0 or megatons <= 1, the four tsunami
\* fields of the result are present and equal to 0.
C1_TsunamiGating ==
    Returned =>
        LET r == call.ret.value
        IN  (call.popDensity # 0 \/ FLeq(r.megatons, One)) =>
                /\ r.tsunamiHeight = Zero
                /\ r.tsunamiRadius = Zero
                /\ r.tsunamiDeaths = Zero
                /\ r.tsunamiAffectedCoasts = Zero

\* An ocean impact (density 0) of at most one megaton has been computed.
C1_Witness ==
    /\ Returned
    /\ InDomain(call.s)
    /\ call.popDensity = 0
    /\ FLeq(call.ret.value.megatons, One)
    /\ call.ret.value.isOceanImpact
    /\ call.ret.value.tsunamiHeight = Zero

\* C2 as claimed: for every angle in (0, 90] the field
\* deflectionAngleEfficiency, read as a fraction, lies in [0.1, 1.0] (as
\* tenths of a percent: in 100..1000).
C2_EfficiencyAtLeastTenth ==
    (Returned /\ InDomain(call.s)) =>
        LET e == call.ret.value.deflectionAngleEfficiency
        IN  e.text = "decimal" /\ e.n >= 100 /\ e.n <= 1000

\* C2 as amended: for every whole angle 1..90 the field is the sine of the
\* angle in percent, between 1.7 and 100.0, and it reaches 10.0 exactly from
\* 6 degrees on: the floor of 0.1 is not applied to the field.
C2_EfficiencyIsSine ==
    (Returned /\ InDomain(call.s)) =>
        LET e == call.ret.value.deflectionAngleEfficiency
        IN  /\ e.text = "decimal"
            /\ e.n >= 17
            /\ e.n <= 1000
            /\ (e.n >= 100 <=> call.s.angle >= 6)

\* A result for a 5 degree impact reports an efficiency below 10 percent.
C2_Witness ==
    /\ Returned
    /\ InDomain(call.s)
    /\ call.s.angle = 5
    /\ call.ret.value.deflectionAngleEfficiency.n < 100

\* The population exposed to an effect: its area times the density.
Exposed(area) == FMul(area, FromInt(call.popDensity))
CraterExposed == Exposed(craterAreaOf(call.ret.value.craterDiameter))
FireballExposed == Exposed(AreaKm2(call.ret.value.fireballRadius))
ShockWaveExposed == Exposed(AreaKm2(shockWaveRadiusOf(call.ret.value.energy)))
WindExposed == Exposed(AreaKm2(windRadiusOf(call.ret.value.energy)))
EarthquakeExposed == Exposed(AreaKm2(call.ret.value.earthquakeRadius))

\* C3 as claimed: no death count exceeds its effect's area times the
\* population density.
C3_DeathsWithinExposed ==
    (Returned /\ InDomain(call.s)) =>
        LET r == call.ret.value
        IN  /\ FLeq(r.craterVaporized, CraterExposed)
            /\ FLeq(r.fireballDeaths, FireballExposed)
            /\ FLeq(r.shockWaveDeaths, ShockWaveExposed)
            /\ FLeq(r.windDeaths, WindExposed)
            /\ FLeq(r.earthquakeDeaths, EarthquakeExposed)

\* C3 as amended: no death count exceeds its effect's area times the
\* population density rounded to the nearest whole number.
C3_DeathsWithinRoundedExposed ==
    (Returned /\ InDomain(call.s)) =>
        LET r == call.ret.value
        IN  /\ FLeq(r.craterVaporized, MathRound(CraterExposed))
            /\ FLeq(r.fireballDeaths, MathRound(FireballExposed))
            /\ FLeq(r.shockWaveDeaths, MathRound(ShockWaveExposed))
            /\ FLeq(r.windDeaths, MathRound(WindExposed))
            /\ FLeq(r.earthquakeDeaths, MathRound(EarthquakeExposed))

\* A result whose crater count was rounded up past the exposed population,
\* with people killed by the fireball.
C3_Witness ==
    /\ Returned
    /\ InDomain(call.s)
    /\ call.popDensity > 0
    /\ FLess(CraterExposed, call.ret.value.craterVaporized)
    /\ FGreater(call.ret.value.fireballDeaths, Zero)

\* C9: a computation requested with a non-positive diameter, speed or
\* density, or an angle outside (0, 90], fails with InvalidParameterError.
C9_OutOfDomainRejected ==
    (Called /\ ~InDomain(call.s)) =>
        call.ret = [kind |-> "rejected", error |-> "InvalidParameterError"]

\* C12: for every in-domain call (energy > 0, angle in (0, 90]) the crater
\* diameter lies between 0.3 x baseCraterDiameter and baseCraterDiameter,
\* and equals baseCraterDiameter at 90 degrees.
C12_CraterWithinBaseline ==
    (Returned /\ InDomain(call.s)) =>
        LET r == call.ret.value
            base == baseCraterDiameterOf(r.energy)
        IN  /\ FGreater(r.energy, Zero)
            /\ FLeq(FMul(Dec(3, -1), base), r.craterDiameter)
            /\ FLeq(r.craterDiameter, base)
            /\ call.s.angle = 90 => r.craterDiameter = base

\* A vertical impact has been computed: its crater is the baseline crater.
C12_Witness ==
    /\ Returned
    /\ InDomain(call.s)
    /\ call.s.angle = 90
    /\ FGreater(call.ret.value.energy, Zero)
    /\ call.ret.value.craterDiameter = baseCraterDiameterOf(call.ret.value.energy)

\* The settings that differ from s in a larger diameter only or in a larger
\* speed only: the next step of the slider and the larger values of the grid.
LargerDiameter(s) ==
    {[s EXCEPT !.diam = d] : d \in {x \in {s.diam + 1, 50, 500, 2000} : x > s.diam /\ x <= 2000}}
LargerSpeed(s) ==
    {[s EXCEPT !.speed = v] : v \in {x \in {s.speed + 1, 17, 72} : x > s.speed /\ x <= 72}}

\* C13: an in-domain call gives strictly smaller energy, megatons,
\* craterDiameter and blastRadius than the call that differs from it in a
\* strictly larger diameter only, or in a strictly larger speed only.
C13_LargerBodyLargerImpact ==
    (Returned /\ InDomain(call.s)) =>
        \A s2 \in LargerDiameter(call.s) \cup LargerSpeed(call.s) :
            LET r == call.ret.value
                r2 == computeImpact(call.latlng, s2, call.popDensity)
            IN  /\ FLess(r.energy, r2.energy)
                /\ FLess(r.megatons, r2.megatons)
                /\ FLess(r.craterDiameter, r2.craterDiameter)
                /\ FLess(r.blastRadius, r2.blastRadius)

\* A call at the default settings has been computed; it has larger
\* neighbours in diameter and in speed, the next steps of the two sliders
\* among them.
C13_Witness ==
    /\ Returned
    /\ call.s = DefaultSettings
    /\ [DefaultSettings EXCEPT !.diam = 501] \in LargerDiameter(call.s)
    /\ [DefaultSettings EXCEPT !.speed = 18] \in LargerSpeed(call.s)
    /\ FLess(call.ret.value.craterDiameter,
             computeImpact(call.latlng, [DefaultSettings EXCEPT !.diam = 501],
                           call.popDensity).craterDiameter)

\* C14: willAirburst is true exactly when diameter < 200, speed > 11 and
\* angle > 15, whatever the density and the population density; so it is
\* false at diameter 500 and true at diameter 50, speed 20, angle 30.
C14_AirburstThresholds ==
    Returned =>
        /\ call.ret.value.willAirburst
              = (call.s.diam < 200 /\ call.s.speed > 11 /\ call.s.angle > 15)
        /\ call.s.diam = 500 => ~call.ret.value.willAirburst
        /\ (call.s.diam = 50 /\ call.s.speed = 20 /\ call.s.angle = 30)
              => call.ret.value.willAirburst

\* The call for diameter 50, speed 20, angle 30, density 3000 has been
\* computed over populated land, and it airbursts.
C14_Witness ==
    /\ Returned
    /\ call.s = [diam |-> 50, speed |-> 20, angle |-> 30, density |-> 3000]
    /\ call.popDensity = 1200
    /\ call.ret.value.willAirburst

\* The radius fields of a result, and its counts of people derived from an
\* area.
RadiusFields ==
    {"blastRadius", "fireballRadius", "lungDamageRadius", "eardrumRadius",
     "buildingCollapseRadius", "homeCollapseRadius", "jupiterWindRadius",
     "leveledRadius", "tornadoRadius", "treeKnockRadius", "earthquakeRadius",
     "tsunamiRadius"}
CountFields ==
    {"craterVaporized", "fireballDeaths", "burns3rdDegree", "burns2ndDegree",
     "shockWaveDeaths", "windDeaths", "earthquakeDeaths", "tsunamiDeaths"}

\* C15: for every in-domain call and every resolved population density, every
\* radius field, every death or casualty count derived from an area, mass,
\* energy and deflectionEnergy of the result is >= 0.
C15_NonNegativeOutputs ==
    (Returned /\ InDomain(call.s)) =>
        \A f \in RadiusFields \cup CountFields \cup {"mass", "energy", "deflectionEnergy"} :
            FGeq(call.ret.value[f], Zero)

\* The smallest, slowest body over dense land has been computed: its
\* earthquake magnitude is negative, its felt radius is positive and it
\* kills nobody.
C15_Witness ==
    /\ Returned
    /\ call.s.diam = 1
    /\ call.s.speed = 1
    /\ call.popDensity = 25000
    /\ FLess(call.ret.value.earthquakeMagnitude, Zero)
    /\ FGreater(call.ret.value.earthquakeRadius, Zero)
    /\ FGreater(call.ret.value.deflectionEnergy, Zero)
    /\ call.ret.value.earthquakeDeaths = Zero

\* The deaths of a tsunami of the given height and radius on coasts of the
\* given density: a tenth of the people on the strip flooded along the
\* perimeter.
CoastalDeaths(height, radius, density) ==
    MathRound(FMul(FMul(FDiv(FMul(FMul(FMul(radius, MathPI), FromInt(2)),
                                  MathMin(FMul(height, FromInt(100)), FromInt(10000))),
                             FromInt(1000000)),
                        FromInt(density)),
                   Dec(1, -1)))

\* C17: whenever the resolved population density is 0 and megatons > 1, the
\* result has tsunamiHeight > 0 and tsunamiRadius > 0, and its tsunamiDeaths
\* are those of the coastal density 150 (more than none), not those of the
\* resolved density.
C17_TsunamiOnOceanImpact ==
    (Returned /\ call.popDensity = 0 /\ FGreater(call.ret.value.megatons, One)) =>
        LET r == call.ret.value
        IN  /\ r.isOceanImpact
            /\ FGreater(r.tsunamiHeight, Zero)
            /\ FGreater(r.tsunamiRadius, Zero)
            /\ r.tsunamiDeaths = CoastalDeaths(r.tsunamiHeight, r.tsunamiRadius, 150)
            /\ FGreater(r.tsunamiDeaths, Zero)
            /\ r.tsunamiDeaths # CoastalDeaths(r.tsunamiHeight, r.tsunamiRadius, call.popDensity)

\* The default body has hit the ocean: more than a megaton, a wave and
\* people killed on the coasts.
C17_Witness ==
    /\ Returned
    /\ call.s = DefaultSettings
    /\ call.popDensity = 0
    /\ FGreater(call.ret.value.megatons, One)
    /\ FGreater(call.ret.value.tsunamiHeight, FromInt(10))
    /\ FGreater(call.ret.value.tsunamiDeaths, Zero)

\* x is lo or hi or between them.
Within(x, lo, hi) == FLeq(lo, x) /\ FLeq(x, hi)
\* The example call: the default settings over land of density 57.
DefaultCall == Returned /\ call.s = DefaultSettings /\ call.popDensity = 57

\* C18 as claimed: the default settings with population density 57 give
\* mass = 2.29e8 kg, energy = 3.31e16 J and megatons = 7.9, each to its last
\* digit, and no airburst.
C18_DefaultExample ==
    DefaultCall =>
        LET r == call.ret.value
        IN  /\ Within(r.mass, Dec(2285, 5), Dec(2295, 5))
            /\ Within(r.energy, Dec(3305, 13), Dec(3315, 13))
            /\ Within(r.megatons, Dec(785, -2), Dec(795, -2))
            /\ ~r.willAirburst

\* C18 as amended: the default settings with population density 57 give
\* mass = 2.29e11 kg, energy = 3.31e19 J and megatons = 7.91e3 (gigatons
\* = 7.9), each to its last digit, and no airburst.
C18_DefaultExampleGigatons ==
    DefaultCall =>
        LET r == call.ret.value
        IN  /\ Within(r.mass, Dec(2285, 8), Dec(2295, 8))
            /\ Within(r.energy, Dec(3305, 16), Dec(3315, 16))
            /\ Within(r.megatons, Dec(7905, 0), Dec(7915, 0))
            /\ Within(r.gigatons, Dec(785, -2), Dec(795, -2))
            /\ ~r.willAirburst

\* The example call has been computed: thousands of megatons, no airburst,
\* and the density 57 reported back.
C18_Witness ==
    /\ DefaultCall
    /\ FGreater(call.ret.value.megatons, FromInt(1000))
    /\ ~call.ret.value.willAirburst
    /\ call.ret.value.populationDensity = FromInt(57)

\* Yields at and just below the three reference yields, and none at all.
BoundaryYields ==
    {FromInt(50), Dec(4999, -2), Dec(1, -1), Dec(99, -3), Dec(15, -3), Dec(149, -4), Zero}

\* The wording names the largest reference yield that dm reaches.
NamesLargestReached(dm, text) ==
    /\ text \in {"x Tsar Bomba", "x modern nukes", "x Hiroshima bombs", " kilotons"}
    /\ text = "x Tsar Bomba" <=> FGeq(dm, FromInt(50))
    /\ text = "x modern nukes" <=> (FGeq(dm, Dec(1, -1)) /\ FLess(dm, FromInt(50)))
    /\ text = "x Hiroshima bombs" <=> (FGeq(dm, Dec(15, -3)) /\ FLess(dm, Dec(1, -1)))
    /\ text = " kilotons" <=> FLess(dm, Dec(15, -3))

\* C19: the comparison string of every result is 'Tsar Bomba' iff
\* deflectionMegatons >= 50, 'modern nukes' iff it is in [0.1, 50),
\* 'Hiroshima bombs' iff it is in [0.015, 0.1) and a kiloton figure iff it is
\* below 0.015, one form for every yield; so it is at the reference yields
\* themselves and just below them.
C19_ComparisonNamesLargestReached ==
    /\ \A dm \in BoundaryYields : NamesLargestReached(dm, bombComparisonOf(dm).text)
    /\ Returned =>
          NamesLargestReached(call.ret.value.deflectionMegatons,
                              call.ret.value.deflectionBombComparison.text)

\* A result whose deflection takes between 0.1 and 0.3 megatons has been
\* computed and is compared to modern nukes.
C19_Witness ==
    /\ Returned
    /\ InDomain(call.s)
    /\ FGeq(call.ret.value.deflectionMegatons, Dec(1, -1))
    /\ FLess(call.ret.value.deflectionMegatons, Dec(3, -1))
    /\ call.ret.value.deflectionBombComparison.text = "x modern nukes"

\* Two calls at the angle of s: a small fast iron body over the ocean and a
\* large slow rocky one over dense land.
SameAngle(s) ==
    {[s |-> [diam |-> 1, speed |-> 72, angle |-> s.angle, density |-> 7800], popDensity |-> 0],
     [s |-> [diam |-> 2000, speed |-> 1, angle |-> s.angle, density |-> 2700], popDensity |-> 25000]}

\* C20: craterShape is 'Circular' iff angle > 60, 'Elliptical' iff
\* 30 < angle <= 60 and 'Highly Elongated' iff angle <= 30, for every angle
\* of the settings, and it is the same for every diameter, speed, material
\* and population density at that angle.
C20_ShapeFromAngleAlone ==
    Returned =>
        LET shape == call.ret.value.craterShape
            angle == call.s.angle
        IN  /\ shape \in {"Circular", "Elliptical", "Highly Elongated"}
            /\ shape = "Circular" <=> angle > 60
            /\ shape = "Elliptical" <=> (30 < angle /\ angle <= 60)
            /\ shape = "Highly Elongated" <=> angle <= 30
            /\ \A c \in SameAngle(call.s) :
                  computeImpact(call.latlng, c.s, c.popDensity).craterShape = shape

\* An impact at exactly 60 degrees has been computed: its crater is
\* elliptical.
C20_Witness ==
    /\ Returned
    /\ call.s.angle = 60
    /\ call.ret.value.craterShape = "Elliptical"

\* The five breakpoints, a yield just above each, and no yield at all.
BreakpointYields ==
    {Zero, FromInt(1), Dec(1001, -3), FromInt(10), Dec(1001, -2), FromInt(100),
     Dec(1001, -1), FromInt(1000), FromInt(1001), FromInt(10000), FromInt(10010)}

\* f is the step of the yield mt, a breakpoint belonging to the step below it.
StepOf(mt, f) ==
    /\ f \in {65, 650, 6500, 65000, 650000, 65000000}
    /\ f = 65 <=> FLeq(mt, FromInt(1))
    /\ f = 650 <=> (FGreater(mt, FromInt(1)) /\ FLeq(mt, FromInt(10)))
    /\ f = 6500 <=> (FGreater(mt, FromInt(10)) /\ FLeq(mt, FromInt(100)))
    /\ f = 65000 <=> (FGreater(mt, FromInt(100)) /\ FLeq(mt, FromInt(1000)))
    /\ f = 650000 <=> (FGreater(mt, FromInt(1000)) /\ FLeq(mt, FromInt(10000)))
    /\ f = 65000000 <=> FGreater(mt, FromInt(10000))

\* C21: impactFrequency is one of 65, 650, 6500, 65000, 650000, 65000000,
\* the step of megatons between the breakpoints 1, 10, 100, 1000, 10000 with
\* each breakpoint in the lower step, and it does not decrease as megatons
\* grows.
C21_FrequencySteps ==
    /\ \A mt \in BreakpointYields : StepOf(mt, impactFrequencyOf(mt))
    /\ Returned =>
          LET r == call.ret.value
          IN  /\ StepOf(r.megatons, r.impactFrequency)
              /\ \A mt \in BreakpointYields :
                    /\ FLeq(r.megatons, mt) => r.impactFrequency <= impactFrequencyOf(mt)
                    /\ FLeq(mt, r.megatons) => impactFrequencyOf(mt) <= r.impactFrequency

\* A result of more than 10000 megatons has been computed: the top step.
C21_Witness ==
    /\ Returned
    /\ InDomain(call.s)
    /\ FGreater(call.ret.value.megatons, FromInt(10000))
    /\ call.ret.value.impactFrequency = 65000000

\* C28: the casualties of the fireball zone, fireballDeaths + burns3rdDegree
\* + burns2ndDegree, do not exceed the population exposed in it, the area of
\* the fireball times the population density, for every call with settings
\* in the domain.
C28_FireballCasualtiesWithinExposed ==
    (Returned /\ InDomain(call.s)) =>
        LET r == call.ret.value
        IN  FLeq(FAdd(FAdd(r.fireballDeaths, r.burns3rdDegree), r.burns2ndDegree),
                 FireballExposed)

\* The counts of people taken from the resolved density.
DensityCounts ==
    {"craterVaporized", "fireballDeaths", "burns3rdDegree", "burns2ndDegree",
     "shockWaveDeaths", "windDeaths", "earthquakeDeaths"}

CapYields ==
    {Dec(1, -3), FromInt(1), FromInt(1000), Dec(5, 5), Dec(9, 5), Dec(2, 6), Dec(1, 9)}
\* The caps are reached with room to spare.
BeyondCaps(mt) == FGeq(mt, Dec(2, 6))

DensityValue(v) ==
    \/ v \in {noData, NoData}
    \/ v.t = "number"
    \/ v.t = "string" /\ TrimLeft(v.chars) # <<>> /\ ~StringToNumber(v.chars).nan

\* A body of the shape the code reads: an object with a density in value, or
\* in results[0].value when it has no value.
ExpectedShape(data) ==
    /\ data.t = "object"
    /\ \/ DensityValue(data.value)
       \/ /\ data.value.t \in {"null", "undefined"}
          /\ data.results.t = "array"
          /\ Len(data.results.items) > 0
          /\ data.results.items[1].t = "object"
          /\ DensityValue(data.results.items[1].value)

\* The service call failed: the network, the timer's abort, a status that is
\* not OK, a body that is not JSON or not of the expected shape.
ServiceFailed(answer) ==
    \/ answer.kind \in {"networkError", "abort", "invalidJSON"}
    \/ answer.kind = "response" /\ ~answer.ok
    \/ answer.kind = "body" /\ ~ExpectedShape(answer.data)

\* C4: after every failure of the service call the promise is resolved, and
\* to the fallback constant 57.
C4_FailureResolvesToFallback ==
    (req.phase = "done" /\ ServiceFailed(req.answer)) =>
        req.settled = [kind |-> "resolve", value |-> FallbackDensity]

\* C5: once the 5 s of the timeout have passed the call has settled, in
\* the fetch phase and in the body phase alike.
C5_SettledOnceTimeoutElapsed ==
    req.phase \in {"fetch", "body"} => req.clock <= TimeoutSeconds

\* The value the code looks at in a parsed body: data.value, else
\* data.results[0].value; undefined when there is neither.
ReportedValue(data) ==
    IF data.t # "object" THEN JUndefined
    ELSE IF data.value.t \notin {"null", "undefined"} THEN data.value
    ELSE IF data.results.t = "array" /\ Len(data.results.items) > 0
            /\ data.results.items[1].t = "object"
         THEN data.results.items[1].value
         ELSE JUndefined

\* C16: the call resolves to a non-negative integer in every case; when the
\* service answers with a body, a numeric value in it is returned rounded to
\* the nearest integer and not below 0, a no-data marker gives 0, and a body
\* with no usable value gives 57.
C16_ThreeOutcomes ==
    req.phase = "done" =>
        /\ req.settled.kind = "resolve"
        /\ req.settled.value \in Nat
        /\ req.answer.kind = "body" =>
              LET v == ReportedValue(req.answer.data)
                  n == req.settled.value
              IN  /\ v \in {noData, NoData} => n = 0
                  /\ v.t = "number" =>
                        \/ v.milli < 500 /\ n = 0
                        \/ v.milli >= 500 /\ 1000 * n - 500 <= v.milli /\ v.milli < 1000 * n + 500
                  /\ ~DensityValue(v) => n = FallbackDensity
\* The result computeImpact gives for the default settings at the place of
\* the request once the lookup has resolved.
ImpactThere == computeImpact([lat |-> req.lat, lng |-> req.lng], DefaultSettings, req.settled.value)

\* C27: a place for which the service reports a positive density is not
\* classified as an ocean impact; isOceanImpact is true only when the
\* service reported the no-data marker for it.
C27_OceanOnlyOnNoData ==
    (req.phase = "done" /\ req.answer.kind = "body" /\ req.settled.kind = "resolve") =>
        LET v == ReportedValue(req.answer.data)
        IN  /\ (v.t = "number" /\ v.milli > 0) => ~ImpactThere.isOceanImpact
            /\ ImpactThere.isOceanImpact => v \in {noData, NoData}

(***************************************************************************)
(* Properties of the App component, checked under Spec.                    *)
(***************************************************************************)
SelectsLocation ==
    \/ ~isAnimating /\ ~showExplosion /\ \E latlng \in UILocations : handleMapClick(latlng)
    \/ \E a \in AsteroidSettings, loc \in UILocations : handleSelectAsteroid(a, loc)
ChangesSettings == \E partial \in Partials : handleSettingsChange(partial)
\* Call l has left the pending calls in this step.
Settled(l) == \A m \in lookups' : m.id # l.id

\* C6: no pending call is cancelled or checked against a sequence number:
\* whenever one settles, its result is installed, whatever was started or
\* installed after it was started; so an earlier call settling after a
\* later one overwrites the newer result.
C6_EverySettledCallInstalls ==
    [][\A l \in lookups :
          Settled(l) => (results' # Null /\ resultsFrom' # Null /\ resultsFrom'.id = l.id)]_vars

\* Two settings changes raced: the result on display comes from the earlier
\* one, it replaced the later one's, and it was computed from settings that
\* are no longer the current ones.
C6_Witness ==
    /\ lookups = {}
    /\ flightTimer = Null /\ explosionTimer = Null
    /\ results # Null /\ resultsFrom # Null
    /\ resultsFrom.origin = "settings"
    /\ resultsFrom.replaced # Null
    /\ resultsFrom.replaced.origin = "settings"
    /\ resultsFrom.replaced.id > resultsFrom.id
    /\ resultsFrom.replaced.s = settings
    /\ resultsFrom.s # settings

\* C7: after each clearing action (clear-target, either Reset, a map click
\* that selects a target, an asteroid selection) results is null.
C7_ClearingDiscardsResults ==
    [][(ClearTarget \/ handleReset \/ ResetTarget \/ SelectsLocation)
          => results' = Null]_vars

C10_CatchUnreachable == InDomain(settings) /\ ~caught

\* A result computed with the fallback density was installed after the
\* service call failed.
C10_Witness ==
    /\ results # Null /\ resultsFrom # Null
    /\ resultsFrom.popDensity = FallbackDensity
    /\ InDomain(resultsFrom.s)
    /\ ~caught

\* C11: the result on display is the value of computeImpact at the
\* location and the settings its call was started with and at the density
\* its lookup resolved to, whatever happened while the lookup was pending;
\* so two calls with equal inputs install equal results.
C11_ResultFromCallTimeInputs ==
    results # Null =>
        /\ resultsFrom # Null
        /\ \E p \in UIComputed :
              /\ p[1].latlng = resultsFrom.latlng
              /\ p[1].s = resultsFrom.s
              /\ p[1].fetched.value = resultsFrom.popDensity
              /\ p[2].kind = "fulfilled"
              /\ p[2].value = results

\* The settings were changed while a launch's lookup was pending: the result
\* installed is that of the settings the launch started with.
C11_Witness ==
    /\ results # Null /\ resultsFrom # Null
    /\ resultsFrom.origin = "launch"
    /\ resultsFrom.s # settings
    /\ resultsFrom.s.diam # settings.diam
    /\ results.mass = massOf(resultsFrom.s)
    /\ results.mass # massOf(settings)

\* Nothing is animating, exploding or being calculated.
Idle == ~isAnimating /\ ~showExplosion /\ ~isCalculating

\* C22: after handleLaunch the UI eventually is idle again (isAnimating,
\* showExplosion and isCalculating all false), whatever the population
\* service does; runs that use up the calls of the model are left aside.
C22_LaunchReturnsToIdle == (flightTimer # Null) ~> (Idle \/ issued = MaxIssued)

\* No timer of a launch and no lookup is pending.
Quiescent == flightTimer = Null /\ explosionTimer = Null /\ lookups = {}

\* C23: whenever no timer and no lookup is pending and a result is on
\* display, it is the result of computeImpact for the current settings and
\* the current selectedLocation.
C23_ResultsMatchCurrentInputs ==
    (Quiescent /\ results # Null) =>
        /\ selectedLocation # Null
        /\ \E p \in UIComputed :
              /\ p[1].latlng = selectedLocation
              /\ p[1].s = settings
              /\ p[2].kind = "fulfilled"
              /\ p[2].value = results

\* C24: the result of a call begun before a clearing action (either Reset,
\* clear-target, a map click that selects a target, an asteroid selection),
\* or of a launch begun before it, is not installed after that action: when
\* such a call settles, what is on display stays as it is.
C24_SupersededCallNotInstalled ==
    [][\A l \in lookups :
          (Settled(l) /\ l.id \in superseded.calls)
              => (results' = results /\ resultsFrom' = resultsFrom)]_vars

\* The launch sequences in flight: the timers set and the calls of launches
\* awaiting their lookup.
LaunchesInFlight ==
    (IF flightTimer # Null THEN 1 ELSE 0) + (IF explosionTimer # Null THEN 1 ELSE 0)
        + Cardinality({l \in lookups : l.origin = "launch"})
\* The Launch button is rendered (App.jsx 551).
LaunchOffered == selectedLocation # Null /\ ~isAnimating /\ ~showExplosion

C26_ClickIgnoredWhileAnimating ==
    [][\A latlng \in UILocations :
          handleMapClick(latlng) =>
              IF isAnimating \/ showExplosion
              THEN UNCHANGED <<selectedLocation, impact, results, settings>>
              ELSE selectedLocation' = latlng /\ impact' = Null /\ results' = Null]_vars

\* A click was ignored during a flight: the launch's target is still the
\* selected one and the marker is on it.
C26_Witness ==
    /\ ignoredClick
    /\ isAnimating
    /\ flightTimer # Null
    /\ selectedLocation = flightTimer.latlng
    /\ impact = selectedLocation
====
